---- MODULE Spec2Model ----
(***************************************************************************)
(* OpenRAG: the ingestion pipeline with its job lifecycle                  *)
(* (app/services/ingestion.py) and the upload router that drives it        *)
(* (app/routers/upload.py).                                                *)
(*                                                                         *)
(* Execution model.  The router's handlers are `async def`: they run on    *)
(* the event loop, one at a time, and give way only at an `await`.         *)
(* run_ingestion is a plain function handed to BackgroundTasks, so it runs *)
(* on a worker thread and its statements interleave with the handlers and  *)
(* with other runs.  delete_file is called synchronously by remove_file:   *)
(* no other handler runs inside it, but worker threads do.                 *)
(***************************************************************************)
EXTENDS Naturals, Sequences, FiniteSets

VARIABLES
    upload_dir,  \* settings.upload_dir: file name -> content, for the regular files on disk
    uploading,   \* file names whose upload_file has saved the file and not yet registered the job
    jobs,        \* the dict `jobs`: its keys (job ids) in insertion order
    jobinfo,     \* the JobInfo objects ever created, by job id (an object outlives its dict entry)
    run,         \* the background task run_ingestion(job_id, filepath) of every job, by job id
    store,       \* the VectorRecords of the Chroma collection COLLECTION_NAME
    remove,      \* the remove_file/delete_file call in progress on the event loop
    resp,        \* the HTTP response a handler has just sent (NoResponse after any other step)
    collection,  \* whether the Chroma collection COLLECTION_NAME exists in persist_dir
    chat,        \* the query_documents call of chat_send: its position, external calls and result
    probe        \* the input and the result of a function applied on its own

vars == <<upload_dir, uploading, jobs, jobinfo, run, store, remove, resp,
          collection, chat, probe>>

(***************************************************************************)
(* Bounds of the model.                                                    *)
(***************************************************************************)
MaxJobs == 2        \* uploads accepted in one behaviour
MaxPages == 2       \* pages (sheets) of an uploaded file
MaxPageChunks == 1  \* size of a page's text, in chunks; 0 is a blank page

(***************************************************************************)
(* Inputs.  A file name is <<stem, suffix>>; a file's content is the       *)
(* sequence of its pages (sheets), each given by the size of its text.     *)
(***************************************************************************)
FileNames == {<<"a", ".pdf">>, <<"b", ".xlsx">>}

Contents == UNION {[1..n -> 0..MaxPageChunks] : n \in 1..MaxPages}

\* File names whose extension upload_file does not accept.
OtherNames == {<<"n", ".txt">>, <<"N", ".TXT">>, <<"README", "">>}

\* Path(filename).suffix.lower(), on the suffixes of the names above.
Suffix(filename) ==
    IF filename[2] = ".TXT" THEN ".txt" ELSE filename[2]

ALLOWED_EXTENSIONS == {".pdf", ".xlsx", ".xls"}

(***************************************************************************)
(* JobInfo (dataclass): a new job is processing, progress 0, no error.     *)
(***************************************************************************)
JobInfo(job_id, filename) ==
    [job_id |-> job_id, filename |-> filename,
     status |-> "processing", progress |-> 0, error |-> ""]

NoJob == [job_id |-> 0, filename |-> <<"", "">>,
          status |-> "", progress |-> 0, error |-> ""]

(***************************************************************************)
(* The extractors.  A page or sheet whose text is blank yields no          *)
(* document; a PDF document carries page_label = the page's 1-based        *)
(* position, an Excel document carries sheet_name (the sheet's position    *)
(* stands for its name).  0 stands for an absent metadata key.             *)
(***************************************************************************)
\* Mutant of PDFPlumberReader_load_data: the label counts the documents
\* made so far, not the pages read.
RECURSIVE PDFPlumberReader_load_data_CountsDocuments(_, _)
PDFPlumberReader_load_data_CountsDocuments(pages, i) ==
    IF i > Len(pages) THEN <<>>
    ELSE (IF pages[i] = 0 THEN <<>>
          ELSE <<[page_label |-> Cardinality({k \in 1..i : pages[k] # 0}),
                  sheet_name |-> 0, size |-> pages[i]]>>)
         \o PDFPlumberReader_load_data_CountsDocuments(pages, i + 1)

RECURSIVE PDFPlumberReader_load_data(_, _)
PDFPlumberReader_load_data(pages, i) ==
    IF i > Len(pages) THEN <<>>
    ELSE (IF pages[i] = 0 THEN <<>>
          ELSE <<[page_label |-> i, sheet_name |-> 0, size |-> pages[i]]>>)
         \o PDFPlumberReader_load_data(pages, i + 1)

RECURSIVE ExcelReaderWithSheetMeta_load_data(_, _)
ExcelReaderWithSheetMeta_load_data(sheets, i) ==
    IF i > Len(sheets) THEN <<>>
    ELSE (IF sheets[i] = 0 THEN <<>>
          ELSE <<[page_label |-> 0, sheet_name |-> i, size |-> sheets[i]]>>)
         \o ExcelReaderWithSheetMeta_load_data(sheets, i + 1)

build_file_extractors(suffix, content) ==
    IF suffix = ".pdf" THEN PDFPlumberReader_load_data(content, 1)
    ELSE ExcelReaderWithSheetMeta_load_data(content, 1)

(***************************************************************************)
(* SentenceSplitter: a document of size s is split into s nodes, in        *)
(* order, each inheriting the document's metadata.                         *)
(***************************************************************************)
RECURSIVE SentenceSplitter(_)
SentenceSplitter(documents) ==
    IF documents = <<>> THEN <<>>
    ELSE [k \in 1..Head(documents).size |->
             [page_label |-> Head(documents).page_label,
              sheet_name |-> Head(documents).sheet_name]]
         \o SentenceSplitter(Tail(documents))

VectorRecord(job_id, n, filename, node) ==
    [id |-> <<job_id, n>>, file_name |-> filename,
     page_label |-> node.page_label, sheet_name |-> node.sheet_name]

RecordsOf(filename) == {r \in store : r.file_name = filename}

RecordsBy(job_id) == {r \in store : r.id[1] = job_id}

(***************************************************************************)
(* The state after construction: no upload, no job, an empty collection.   *)
(***************************************************************************)
Idle == [pc |-> "idle", filename |-> <<"", "">>, vec |-> "none",
         ret |-> "none", racing |-> FALSE]

NoResponse == [op |-> "none", job |-> NoJob, files |-> <<>>]

\* No query_documents call has been made: nothing asked of the vector store
\* or of the answering service, no answer, no citation.
NoChat == [pc |-> "idle", calls |-> {}, response |-> "", ranked |-> <<>>,
           answer |-> "", sources |-> <<>>]

NoProbe == [op |-> "none", input |-> <<>>, output |-> <<>>]

\* persist_dir is created empty by the lifespan hook (main.py line 23): the
\* collection does not exist until the first get_or_create_collection.
Init ==
    /\ upload_dir = <<>>
    /\ uploading = {}
    /\ jobs = <<>>
    /\ jobinfo = <<>>
    /\ run = <<>>
    /\ store = {}
    /\ remove = Idle
    /\ resp = NoResponse
    /\ collection = FALSE
    /\ chat = NoChat
    /\ probe = NoProbe

OnDisk(filename) == filename \in DOMAIN upload_dir

InDict(job_id) == \E i \in 1..Len(jobs) : jobs[i] = job_id

\* An ingestion of `filename` is in flight: scheduled and not yet returned.
InFlight(filename) ==
    \E j \in 1..Len(run) : run[j].filename = filename /\ run[j].pc # "done"

(***************************************************************************)
(* get_indexed_files: every file of the upload directory with the status   *)
(* of the first job, in the dict's order, that references it; "ready"      *)
(* when none does.                                                         *)
(***************************************************************************)
RECURSIVE FirstJobStatus(_, _)
FirstJobStatus(filename, i) ==
    IF i > Len(jobs) THEN "ready"
    ELSE IF jobinfo[jobs[i]].filename = filename THEN jobinfo[jobs[i]].status
    ELSE FirstJobStatus(filename, i + 1)

get_indexed_files == [f \in DOMAIN upload_dir |-> FirstJobStatus(f, 1)]

(***************************************************************************)
(* upload_file.                                                            *)
(***************************************************************************)
\* Mutant of UploadReject: the file is saved before its extension is looked at.
UploadReject_SavesFirst(filename) ==
    /\ remove.pc = "idle"
    /\ Suffix(filename) \notin ALLOWED_EXTENSIONS
    /\ upload_dir' = [f \in DOMAIN upload_dir \cup {filename} |->
                         IF f = filename THEN <<1>> ELSE upload_dir[f]]
    /\ UNCHANGED <<uploading, jobs, jobinfo, run, store, remove>>
    /\ UNCHANGED <<collection, chat, probe>>
    /\ resp' = [op |-> "rejected", job |-> NoJob, files |-> <<>>]

\* lines 41-47: the extension is not allowed; the handler answers
\* "Unsupported file type" and returns.
UploadReject(filename) ==
    /\ remove.pc = "idle"
    /\ Suffix(filename) \notin ALLOWED_EXTENSIONS
    /\ UNCHANGED <<upload_dir, uploading, jobs, jobinfo, run, store, remove>>
    /\ UNCHANGED <<collection, chat, probe>>
    /\ resp' = [op |-> "rejected", job |-> NoJob, files |-> <<>>]

\* lines 41-53: the extension is allowed; the streamed save (open(dest, "wb")
\* and the awaited reads).  Other handlers run before the job is registered.
\* One upload of a given name is in progress at a time.
UploadSave(filename, content) ==
    /\ remove.pc = "idle"
    /\ Suffix(filename) \in ALLOWED_EXTENSIONS
    /\ filename \notin uploading
    /\ Len(jobinfo) + Cardinality(uploading) < MaxJobs
    /\ upload_dir' = [f \in DOMAIN upload_dir \cup {filename} |->
                         IF f = filename THEN content ELSE upload_dir[f]]
    /\ uploading' = uploading \cup {filename}
    /\ UNCHANGED <<jobs, jobinfo, run, store, remove>>
    /\ UNCHANGED <<collection, chat, probe>>
    /\ resp' = NoResponse

\* start_ingestion_job: a fresh job id, a new JobInfo entered in the dict.
start_ingestion_job(filename) ==
    /\ jobinfo' = Append(jobinfo, JobInfo(Len(jobinfo) + 1, filename))
    /\ jobs' = Append(jobs, Len(jobinfo) + 1)

\* lines 55-62: register the job, schedule run_ingestion, answer with the job.
UploadRegister(filename) ==
    /\ remove.pc = "idle"
    /\ filename \in uploading
    /\ uploading' = uploading \ {filename}
    /\ start_ingestion_job(filename)
    /\ run' = Append(run, [pc |-> "queued", filename |-> filename,
                           documents |-> <<>>, written |-> 0, exc |-> "",
                           count0 |-> 0, deleted |-> ~OnDisk(filename)])
    /\ UNCHANGED <<collection, chat, probe>>
    /\ resp' = [op |-> "upload", job |-> JobInfo(Len(jobinfo) + 1, filename),
                files |-> <<>>]
    /\ UNCHANGED <<upload_dir, store, remove>>

(***************************************************************************)
(* job_status and file_list: reads on the event loop.                      *)
(***************************************************************************)
job_status(job_id) ==
    /\ remove.pc = "idle"
    /\ UNCHANGED <<collection, chat, probe>>
    /\ resp' = [op |-> "status",
                job |-> IF InDict(job_id) THEN jobinfo[job_id] ELSE NoJob,
                files |-> <<>>]
    /\ UNCHANGED <<upload_dir, uploading, jobs, jobinfo, run, store, remove>>

file_list ==
    /\ remove.pc = "idle"
    /\ UNCHANGED <<collection, chat, probe>>
    /\ resp' = [op |-> "files", job |-> NoJob, files |-> get_indexed_files]
    /\ UNCHANGED <<upload_dir, uploading, jobs, jobinfo, run, store, remove>>

(***************************************************************************)
(* run_ingestion(job_id, filepath), statement by statement.  `exc` is the  *)
(* exception in flight, `documents` and `written` are the run's locals;    *)
(* count0 and deleted record history: the collection's size when the run   *)
(* started, and whether the run's file was missing when the job was        *)
(* registered or a delete_file has set about deleting it since.            *)
(***************************************************************************)
SetJob(job_id, field, value) ==
    jobinfo' = [jobinfo EXCEPT ![job_id] =
                   [jobinfo[job_id] EXCEPT ![field] = value]]

Returned(r) == [r EXCEPT !.pc = "done", !.documents = <<>>]

\* Mutant of RunStart: a job that is not in the dict is entered again.
RunStart_Recreates(j) ==
    /\ j \in DOMAIN run
    /\ run[j].pc = "queued"
    /\ jobs' = IF InDict(j) THEN jobs ELSE Append(jobs, j)
    /\ run' = [run EXCEPT ![j].pc = "l169",
                          ![j].count0 = Cardinality(store)]
    /\ UNCHANGED <<upload_dir, uploading, jobinfo, store, remove>>
    /\ UNCHANGED <<collection, chat, probe>>
    /\ resp' = NoResponse

\* lines 163-165: jobs.get(job_id); no job, no work.
RunStart(j) ==
    /\ j \in DOMAIN run
    /\ run[j].pc = "queued"
    /\ IF InDict(j)
       THEN run' = [run EXCEPT ![j].pc = "l169",
                               ![j].count0 = Cardinality(store)]
       ELSE run' = [run EXCEPT ![j] = Returned(run[j])]
    /\ UNCHANGED <<upload_dir, uploading, jobs, jobinfo, store, remove>>
    /\ UNCHANGED <<collection, chat, probe>>
    /\ resp' = NoResponse

\* line 169
RunProgress10(j) ==
    /\ j \in DOMAIN run
    /\ run[j].pc = "l169"
    /\ SetJob(j, "progress", 10)
    /\ run' = [run EXCEPT ![j].pc = "load"]
    /\ UNCHANGED <<upload_dir, uploading, jobs, store, remove>>
    /\ UNCHANGED <<collection, chat, probe>>
    /\ resp' = NoResponse

\* lines 172-182: read the file, tag the documents, progress = 30.
RunLoad(j) ==
    /\ j \in DOMAIN run
    /\ run[j].pc = "load"
    /\ OnDisk(run[j].filename)
    /\ run' = [run EXCEPT
                 ![j].pc = "build",
                 ![j].documents = build_file_extractors(
                     Suffix(run[j].filename), upload_dir[run[j].filename])]
    /\ SetJob(j, "progress", 30)
    /\ UNCHANGED <<upload_dir, uploading, jobs, store, remove>>
    /\ UNCHANGED <<collection, chat, probe>>
    /\ resp' = NoResponse

\* Mutant of Raise: no except clause catches the exception; the task ends.
Raise_Escapes(j, exc) ==
    /\ run' = [run EXCEPT ![j].pc = "done", ![j].exc = exc,
                          ![j].documents = <<>>]
    /\ UNCHANGED <<upload_dir, uploading, jobs, jobinfo, store, remove>>
    /\ UNCHANGED <<collection, chat, probe>>
    /\ resp' = NoResponse

\* The failure of a step: the exception is raised to the except clause.
Raise(j, exc) ==
    /\ run' = [run EXCEPT ![j].pc = "except", ![j].exc = exc]
    /\ UNCHANGED <<upload_dir, uploading, jobs, jobinfo, store, remove>>
    /\ UNCHANGED <<collection, chat, probe>>
    /\ resp' = NoResponse

\* lines 172-176 raise: the file is gone, or it cannot be parsed.
RunLoadFails(j) ==
    /\ j \in DOMAIN run
    /\ run[j].pc = "load"
    /\ \/ ~OnDisk(run[j].filename) /\ Raise(j, "file does not exist")
       \/ OnDisk(run[j].filename) /\ Raise(j, "extraction failed")

\* lines 186-200: the embedding model, the vector store, progress = 50.
RunBuild(j) ==
    /\ j \in DOMAIN run
    /\ run[j].pc = "build"
    /\ SetJob(j, "progress", 50)
    /\ run' = [run EXCEPT ![j].pc = "run"]
    /\ UNCHANGED <<upload_dir, uploading, jobs, store, remove>>
    /\ collection' = TRUE
    /\ UNCHANGED <<chat, probe>>
    /\ resp' = NoResponse

\* lines 186-187 raise.
RunBuildFails(j) ==
    /\ j \in DOMAIN run
    /\ run[j].pc = "build"
    /\ Raise(j, "embedding model failed")

\* Mutant of RunWrite: the record replaces the one that an earlier run
\* wrote for the same chunk of the same file name.
RunWrite_Replaces(j) ==
    /\ j \in DOMAIN run
    /\ run[j].pc = "run"
    /\ run[j].written < Len(SentenceSplitter(run[j].documents))
    /\ LET n == run[j].written + 1
       IN /\ store' = {r \in store : ~(r.file_name = run[j].filename /\ r.id[2] = n)}
                 \cup {VectorRecord(j, n, run[j].filename,
                                    SentenceSplitter(run[j].documents)[n])}
          /\ run' = [run EXCEPT ![j].written = n]
    /\ UNCHANGED <<upload_dir, uploading, jobs, jobinfo, remove>>
    /\ UNCHANGED <<collection, chat, probe>>
    /\ resp' = NoResponse

\* line 203, one node: embed it and add it to the collection.
RunWrite(j) ==
    /\ j \in DOMAIN run
    /\ run[j].pc = "run"
    /\ run[j].written < Len(SentenceSplitter(run[j].documents))
    /\ LET n == run[j].written + 1
       IN /\ store' = store \cup
                 {VectorRecord(j, n, run[j].filename,
                               SentenceSplitter(run[j].documents)[n])}
          /\ run' = [run EXCEPT ![j].written = n]
    /\ UNCHANGED <<upload_dir, uploading, jobs, jobinfo, remove>>
    /\ UNCHANGED <<collection, chat, probe>>
    /\ resp' = NoResponse

\* Mutant of RunWriteFails: the failing write takes back the records that
\* the run has written.
RunWriteFails_RollsBack(j) ==
    /\ j \in DOMAIN run
    /\ run[j].pc = "run"
    /\ run[j].written < Len(SentenceSplitter(run[j].documents))
    /\ store' = store \ RecordsBy(j)
    /\ run' = [run EXCEPT ![j].pc = "except",
                          ![j].exc = "vector store write failed"]
    /\ UNCHANGED <<upload_dir, uploading, jobs, jobinfo, remove>>
    /\ UNCHANGED <<collection, chat, probe>>
    /\ resp' = NoResponse

\* line 203 raises on the next node: the embedding or the write fails.
RunWriteFails(j) ==
    /\ j \in DOMAIN run
    /\ run[j].pc = "run"
    /\ run[j].written < Len(SentenceSplitter(run[j].documents))
    /\ Raise(j, "vector store write failed")

\* Mutant of RunProgress90: pipeline.run returns before every node is written.
RunProgress90_Early(j) ==
    /\ j \in DOMAIN run
    /\ run[j].pc = "run"
    /\ SetJob(j, "progress", 90)
    /\ run' = [run EXCEPT ![j].pc = "l207"]
    /\ UNCHANGED <<upload_dir, uploading, jobs, store, remove>>
    /\ UNCHANGED <<collection, chat, probe>>
    /\ resp' = NoResponse

\* lines 203-204: pipeline.run returns, progress = 90.
RunProgress90(j) ==
    /\ j \in DOMAIN run
    /\ run[j].pc = "run"
    /\ run[j].written = Len(SentenceSplitter(run[j].documents))
    /\ SetJob(j, "progress", 90)
    /\ run' = [run EXCEPT ![j].pc = "l207"]
    /\ UNCHANGED <<upload_dir, uploading, jobs, store, remove>>
    /\ UNCHANGED <<collection, chat, probe>>
    /\ resp' = NoResponse

\* line 207
RunCompleted(j) ==
    /\ j \in DOMAIN run
    /\ run[j].pc = "l207"
    /\ SetJob(j, "status", "completed")
    /\ run' = [run EXCEPT ![j].pc = "l208"]
    /\ UNCHANGED <<upload_dir, uploading, jobs, store, remove>>
    /\ UNCHANGED <<collection, chat, probe>>
    /\ resp' = NoResponse

\* Mutant of RunProgress100: line 208 raises, inside the try block.
RunProgress100_Raises(j) ==
    /\ j \in DOMAIN run
    /\ run[j].pc = "l208"
    /\ Raise(j, "late failure")

\* line 208, and the function returns.
RunProgress100(j) ==
    /\ j \in DOMAIN run
    /\ run[j].pc = "l208"
    /\ SetJob(j, "progress", 100)
    /\ run' = [run EXCEPT ![j] = Returned(run[j])]
    /\ UNCHANGED <<upload_dir, uploading, jobs, store, remove>>
    /\ UNCHANGED <<collection, chat, probe>>
    /\ resp' = NoResponse

\* Mutant of RunExceptStatus: the handler also resets the progress.
RunExceptStatus_ResetsProgress(j) ==
    /\ j \in DOMAIN run
    /\ run[j].pc = "except"
    /\ jobinfo' = [jobinfo EXCEPT ![j] =
                      [jobinfo[j] EXCEPT !.status = "error", !.progress = 0]]
    /\ run' = [run EXCEPT ![j].pc = "l213"]
    /\ UNCHANGED <<upload_dir, uploading, jobs, store, remove>>
    /\ UNCHANGED <<collection, chat, probe>>
    /\ resp' = NoResponse

\* lines 210-212: except Exception catches the failure; status = "error".
RunExceptStatus(j) ==
    /\ j \in DOMAIN run
    /\ run[j].pc = "except"
    /\ SetJob(j, "status", "error")
    /\ run' = [run EXCEPT ![j].pc = "l213"]
    /\ UNCHANGED <<upload_dir, uploading, jobs, store, remove>>
    /\ UNCHANGED <<collection, chat, probe>>
    /\ resp' = NoResponse

\* Mutant of RunExceptError: the failure message is not recorded.
RunExceptError_NoMessage(j) ==
    /\ j \in DOMAIN run
    /\ run[j].pc = "l213"
    /\ run' = [run EXCEPT ![j] = Returned(run[j])]
    /\ UNCHANGED <<upload_dir, uploading, jobs, jobinfo, store, remove>>
    /\ UNCHANGED <<collection, chat, probe>>
    /\ resp' = NoResponse

\* line 213: error = str(exc), and the function returns.
RunExceptError(j) ==
    /\ j \in DOMAIN run
    /\ run[j].pc = "l213"
    /\ SetJob(j, "error", run[j].exc)
    /\ run' = [run EXCEPT ![j] = Returned(run[j])]
    /\ UNCHANGED <<upload_dir, uploading, jobs, store, remove>>
    /\ UNCHANGED <<collection, chat, probe>>
    /\ resp' = NoResponse

(***************************************************************************)
(* remove_file -> delete_file(filename), statement by statement.           *)
(* remove.vec is the outcome of the vector-store delete of this call,      *)
(* remove.ret what delete_file returned; remove.racing records whether an  *)
(* ingestion of the file was in flight when the call began.                *)
(***************************************************************************)
\* A delete_file of `filename` goes on to delete: mark the runs on that file.
MarkDeleted(filename) ==
    [j \in 1..Len(run) |->
        IF run[j].filename = filename /\ run[j].pc # "done"
        THEN [run[j] EXCEPT !.deleted = TRUE] ELSE run[j]]

\* Mutant of DeleteNotFound: the job entries are cleaned up before the check.
DeleteNotFound_DropsJobs(filename) ==
    /\ remove.pc = "idle"
    /\ ~OnDisk(filename)
    /\ jobs' = SelectSeq(jobs, LAMBDA jid : jobinfo[jid].filename # filename)
    /\ remove' = [Idle EXCEPT !.pc = "list", !.filename = filename,
                              !.ret = "false"]
    /\ UNCHANGED <<upload_dir, uploading, jobinfo, run, store>>
    /\ UNCHANGED <<collection, chat, probe>>
    /\ resp' = NoResponse

\* lines 127-129: not a regular file: return False.
DeleteNotFound(filename) ==
    /\ remove.pc = "idle"
    /\ ~OnDisk(filename)
    /\ remove' = [Idle EXCEPT !.pc = "list", !.filename = filename,
                              !.ret = "false"]
    /\ UNCHANGED <<upload_dir, uploading, jobs, jobinfo, run, store>>
    /\ UNCHANGED <<collection, chat, probe>>
    /\ resp' = NoResponse

\* Mutant of DeleteBegin: the file is unlinked without the vector-store delete.
DeleteBegin_SkipsVectors(filename) ==
    /\ remove.pc = "idle"
    /\ OnDisk(filename)
    /\ remove' = [Idle EXCEPT !.pc = "unlink", !.filename = filename,
                              !.racing = InFlight(filename)]
    /\ UNCHANGED <<upload_dir, uploading, jobs, jobinfo, run, store>>
    /\ UNCHANGED <<collection, chat, probe>>
    /\ resp' = NoResponse

\* lines 127-130: the file is a regular file of the upload directory.
DeleteBegin(filename) ==
    /\ remove.pc = "idle"
    /\ OnDisk(filename)
    /\ remove' = [Idle EXCEPT !.pc = "vec", !.filename = filename,
                              !.racing = InFlight(filename)]
    /\ UNCHANGED <<upload_dir, uploading, jobs, jobinfo, run, store>>
    /\ UNCHANGED <<collection, chat, probe>>
    /\ resp' = NoResponse

\* lines 132-133 raise: the collection cannot be opened; delete_file raises
\* to remove_file, which answers with an error.
DeleteOpenFails ==
    /\ remove.pc = "vec"
    /\ remove' = Idle
    /\ UNCHANGED <<collection, chat, probe>>
    /\ resp' = [op |-> "error", job |-> NoJob, files |-> <<>>]
    /\ UNCHANGED <<upload_dir, uploading, jobs, jobinfo, run, store>>

\* Mutant of DeleteVectors: the delete call returns without removing a record.
DeleteVectors_KeepsRecords ==
    /\ remove.pc = "vec"
    /\ remove' = [remove EXCEPT !.pc = "unlink", !.vec = "ok"]
    /\ run' = MarkDeleted(remove.filename)
    /\ UNCHANGED <<upload_dir, uploading, jobs, jobinfo, store>>
    /\ collection' = TRUE
    /\ UNCHANGED <<chat, probe>>
    /\ resp' = NoResponse

\* lines 132-135: collection.delete(where={"file_name": filename}).
DeleteVectors ==
    /\ remove.pc = "vec"
    /\ store' = store \ RecordsOf(remove.filename)
    /\ remove' = [remove EXCEPT !.pc = "unlink", !.vec = "ok"]
    /\ run' = MarkDeleted(remove.filename)
    /\ UNCHANGED <<upload_dir, uploading, jobs, jobinfo>>
    /\ collection' = TRUE
    /\ UNCHANGED <<chat, probe>>
    /\ resp' = NoResponse

\* lines 134-137: collection.delete raises; the failure is logged and dropped.
DeleteVectorsFails ==
    /\ remove.pc = "vec"
    /\ remove' = [remove EXCEPT !.pc = "unlink", !.vec = "failed"]
    /\ run' = MarkDeleted(remove.filename)
    /\ UNCHANGED <<upload_dir, uploading, jobs, jobinfo, store>>
    /\ collection' = TRUE
    /\ UNCHANGED <<chat, probe>>
    /\ resp' = NoResponse

\* line 140: filepath.unlink().
DeleteUnlink ==
    /\ remove.pc = "unlink"
    /\ upload_dir' = [f \in DOMAIN upload_dir \ {remove.filename} |-> upload_dir[f]]
    /\ remove' = [remove EXCEPT !.pc = "jobs"]
    /\ UNCHANGED <<uploading, jobs, jobinfo, run, store>>
    /\ UNCHANGED <<collection, chat, probe>>
    /\ resp' = NoResponse

\* lines 143-148: drop every job of the file from the dict; return True.
DeleteJobs ==
    /\ remove.pc = "jobs"
    /\ jobs' = SelectSeq(jobs, LAMBDA jid : jobinfo[jid].filename # remove.filename)
    /\ remove' = [remove EXCEPT !.pc = "list", !.ret = "true"]
    /\ UNCHANGED <<upload_dir, uploading, jobinfo, run, store>>
    /\ UNCHANGED <<collection, chat, probe>>
    /\ resp' = NoResponse

\* remove_file lines 82-85: list the files and answer.
RemoveFileList ==
    /\ remove.pc = "list"
    /\ UNCHANGED <<collection, chat, probe>>
    /\ resp' = [op |-> "files", job |-> NoJob, files |-> get_indexed_files]
    /\ remove' = Idle
    /\ UNCHANGED <<upload_dir, uploading, jobs, jobinfo, run, store>>

(***************************************************************************)
(* query_documents (app/services/query.py), called by chat_send on the     *)
(* event loop.  A text is modelled by its length in characters; a          *)
(* metadata key that is absent is 0 (page_label, sheet_name) or NoFileName. *)
(***************************************************************************)
TopK == 5          \* similarity_top_k
PreviewLen == 200  \* node.text[:200]
MaxRanked == 4     \* nodes returned by one retrieval

NoFileName == <<"", "">>

Unknown == <<"unknown", "">>

NoDocuments == "No documents have been indexed yet. Please upload files first."

NoRelevant == "No relevant information found in the indexed documents."

\* What the answering service returns as str(response).
Responses == {"The answer.", " ", "Empty Response"}

\* str.strip() and str.lower() on the strings of Responses.
Strip(str) == IF str = " " THEN "" ELSE str

Lower(str) ==
    IF str = "Empty Response" THEN "empty response"
    ELSE IF str = "The answer." THEN "the answer."
    ELSE str

\* lines 55-57.
Answer(response) ==
    LET answer == Strip(response)
    IN  IF answer = "" \/ Lower(answer) = "empty response"
        THEN NoRelevant
        ELSE answer

TextLens == {0, PreviewLen - 1, PreviewLen, PreviewLen + 1}

\* A retrieved node: the metadata of a VectorRecord and its text.
NodeWithScore(r, text) ==
    [id |-> r.id,
     metadata |-> [file_name |-> r.file_name, page_label |-> r.page_label,
                   sheet_name |-> r.sheet_name],
     text |-> text]

SourceRef(file_name, page, sheet, text_preview) ==
    [file_name |-> file_name, page |-> page, sheet |-> sheet,
     text_preview |-> text_preview]

\* line 75: node.text[:200] if node.text else "".
Preview(text) ==
    IF text = 0 THEN 0
    ELSE IF text <= PreviewLen THEN text
    ELSE PreviewLen

\* lines 62-65: the key (file_name, page, sheet) of a node.
SourceKey(node) ==
    <<IF node.metadata.file_name = NoFileName THEN Unknown
      ELSE node.metadata.file_name,
      node.metadata.page_label,
      node.metadata.sheet_name>>

\* lines 59-77: the loop over response.source_nodes from node i on.
RECURSIVE CiteFrom(_, _, _, _)
CiteFrom(source_nodes, i, seen, sources) ==
    IF i > Len(source_nodes) THEN sources
    ELSE LET node == source_nodes[i]
             key == SourceKey(node)
         IN  IF key \in seen
             THEN CiteFrom(source_nodes, i + 1, seen, sources)
             ELSE CiteFrom(source_nodes, i + 1, seen \cup {key},
                           Append(sources,
                                  SourceRef(key[1], key[2], key[3],
                                            Preview(node.text))))

\* Mutant of Citations: every retrieved node is cited.
Citations_NoDedup(source_nodes) ==
    [i \in 1..Len(source_nodes) |->
        SourceRef(SourceKey(source_nodes[i])[1], SourceKey(source_nodes[i])[2],
                  SourceKey(source_nodes[i])[3],
                  Preview(source_nodes[i].text))]

Citations(source_nodes) == CiteFrom(source_nodes, 1, {}, <<>>)

\* What query_engine.query can retrieve from the collection: at most TopK of
\* its records, each once, in any order of rank, with any text.
RECURSIVE RankedFrom(_, _)
RankedFrom(records, n) ==
    IF n = 0 THEN {<<>>}
    ELSE {<<>>} \cup
         UNION {{<<NodeWithScore(r, t)>> \o rest :
                    rest \in RankedFrom(records \ {r}, n - 1)} :
                <<r, t>> \in records \X TextLens}

Retrievals ==
    RankedFrom(store, IF TopK < MaxRanked THEN TopK ELSE MaxRanked)

\* Mutant of QueryCount: the collection is not counted before the query.
QueryCount_NoCheck ==
    /\ chat.pc # "l45"
    /\ remove.pc = "idle"
    /\ collection' = TRUE
    /\ chat' = [NoChat EXCEPT !.pc = "l45", !.calls = {"count"}]
    /\ UNCHANGED <<upload_dir, uploading, jobs, jobinfo, run, store, remove,
                   resp, probe>>

\* lines 37-43: open the collection, creating it if it does not exist, and
\* count it; zero records are answered at once.
QueryCount ==
    /\ chat.pc # "l45"
    /\ remove.pc = "idle"
    /\ collection' = TRUE
    /\ chat' = IF Cardinality(store) = 0
               THEN [NoChat EXCEPT !.pc = "returned", !.calls = {"count"},
                                   !.answer = NoDocuments]
               ELSE [NoChat EXCEPT !.pc = "l45", !.calls = {"count"}]
    /\ UNCHANGED <<upload_dir, uploading, jobs, jobinfo, run, store, remove,
                   resp, probe>>

\* Mutant of QueryAnswer: the records that were retrieved are dropped from
\* the collection.
QueryAnswer_Consumes(source_nodes, response) ==
    /\ chat.pc = "l45"
    /\ collection' = TRUE
    /\ store' = {r \in store :
                    \A i \in 1..Len(source_nodes) : source_nodes[i].id # r.id}
    /\ chat' = [chat EXCEPT !.pc = "returned",
                            !.calls = @ \cup {"retrieve", "llm"},
                            !.response = response,
                            !.ranked = source_nodes,
                            !.answer = Answer(response),
                            !.sources = Citations(source_nodes)]
    /\ UNCHANGED <<upload_dir, uploading, jobs, jobinfo, run, remove, resp,
                   probe>>

\* lines 45-79: retrieve, have the answer synthesized, build the citations.
QueryAnswer(source_nodes, response) ==
    /\ chat.pc = "l45"
    /\ collection' = TRUE
    /\ chat' = [chat EXCEPT !.pc = "returned",
                            !.calls = @ \cup {"retrieve", "llm"},
                            !.response = response,
                            !.ranked = source_nodes,
                            !.answer = Answer(response),
                            !.sources = Citations(source_nodes)]
    /\ UNCHANGED <<upload_dir, uploading, jobs, jobinfo, run, store, remove,
                   resp, probe>>

\* line 53 raises: the answering service fails; chat_send catches it.
QueryFails ==
    /\ chat.pc = "l45"
    /\ collection' = TRUE
    /\ chat' = [chat EXCEPT !.pc = "raised",
                            !.calls = @ \cup {"retrieve", "llm"}]
    /\ UNCHANGED <<upload_dir, uploading, jobs, jobinfo, run, store, remove,
                   resp, probe>>

\* The collection as earlier runs of the process have left it: two chunks
\* of one page, a further page, a sheet of another file, or any part of
\* these; the files are in the upload directory, the job map is empty.
ChatRecords ==
    {VectorRecord(1, 1, <<"a", ".pdf">>,
                  [page_label |-> 1, sheet_name |-> 0, size |-> 1]),
     VectorRecord(1, 2, <<"a", ".pdf">>,
                  [page_label |-> 2, sheet_name |-> 0, size |-> 1]),
     VectorRecord(2, 1, <<"a", ".pdf">>,
                  [page_label |-> 1, sheet_name |-> 0, size |-> 1]),
     VectorRecord(3, 1, <<"b", ".xlsx">>,
                  [page_label |-> 0, sheet_name |-> 1, size |-> 1])}

InitChat ==
    /\ store \in SUBSET ChatRecords
    /\ collection \in BOOLEAN
    /\ store # {} => collection
    /\ upload_dir = [f \in {r.file_name : r \in store} |-> <<1>>]
    /\ uploading = {}
    /\ jobs = <<>>
    /\ jobinfo = <<>>
    /\ run = <<>>
    /\ remove = Idle
    /\ resp = NoResponse
    /\ chat = NoChat
    /\ probe = NoProbe

NextChat ==
    \/ QueryCount
    \/ /\ chat.pc = "l45"
       /\ \E source_nodes \in Retrievals, response \in Responses :
              QueryAnswer(source_nodes, response)
    \/ QueryFails

SpecChat == InitChat /\ [][NextChat]_vars

Next ==
    \/ \E f \in FileNames \cup OtherNames : UploadReject(f)
    \/ \E f \in FileNames \cup OtherNames, c \in Contents : UploadSave(f, c)
    \/ \E f \in FileNames : UploadRegister(f)
    \/ \E j \in 1..MaxJobs : job_status(j)
    \/ file_list
    \/ \E j \in 1..MaxJobs : RunStart(j)
    \/ \E j \in 1..MaxJobs : RunProgress10(j)
    \/ \E j \in 1..MaxJobs : RunLoad(j)
    \/ \E j \in 1..MaxJobs : RunLoadFails(j)
    \/ \E j \in 1..MaxJobs : RunBuild(j)
    \/ \E j \in 1..MaxJobs : RunBuildFails(j)
    \/ \E j \in 1..MaxJobs : RunWrite(j)
    \/ \E j \in 1..MaxJobs : RunWriteFails(j)
    \/ \E j \in 1..MaxJobs : RunProgress90(j)
    \/ \E j \in 1..MaxJobs : RunCompleted(j)
    \/ \E j \in 1..MaxJobs : RunProgress100(j)
    \/ \E j \in 1..MaxJobs : RunExceptStatus(j)
    \/ \E j \in 1..MaxJobs : RunExceptError(j)
    \/ \E f \in FileNames : DeleteNotFound(f)
    \/ \E f \in FileNames : DeleteBegin(f)
    \/ DeleteOpenFails
    \/ DeleteVectors
    \/ DeleteVectorsFails
    \/ DeleteUnlink
    \/ DeleteJobs
    \/ RemoveFileList

Spec == Init /\ [][Next]_vars

(***************************************************************************)
(* Scheduling.  BackgroundTasks hands run_ingestion(job_id, filepath) to a *)
(* worker thread of the thread pool; a thread that can take its next       *)
(* statement is eventually given the processor, and an external call       *)
(* returns or raises.  RunStep(j) is that next statement, whichever way it *)
(* ends; no step of a handler or of another run disables it.               *)
(***************************************************************************)
RunStep(j) ==
    \/ RunStart(j)
    \/ RunProgress10(j)
    \/ RunLoad(j)
    \/ RunLoadFails(j)
    \/ RunBuild(j)
    \/ RunBuildFails(j)
    \/ RunWrite(j)
    \/ RunWriteFails(j)
    \/ RunProgress90(j)
    \/ RunCompleted(j)
    \/ RunProgress100(j)
    \/ RunExceptStatus(j)
    \/ RunExceptError(j)

\* The uploads and the deletions of one file name: every upload after the
\* first is an upload of the same name, every deletion meets the runs of it.
OneFile == {f \in FileNames : Suffix(f) = ".pdf"}

NextOneFile ==
    \/ \E f \in OneFile, c \in Contents : UploadSave(f, c)
    \/ \E f \in OneFile : UploadRegister(f)
    \/ \E j \in 1..MaxJobs : job_status(j)
    \/ file_list
    \/ \E j \in 1..MaxJobs : RunStart(j)
    \/ \E j \in 1..MaxJobs : RunProgress10(j)
    \/ \E j \in 1..MaxJobs : RunLoad(j)
    \/ \E j \in 1..MaxJobs : RunLoadFails(j)
    \/ \E j \in 1..MaxJobs : RunBuild(j)
    \/ \E j \in 1..MaxJobs : RunBuildFails(j)
    \/ \E j \in 1..MaxJobs : RunWrite(j)
    \/ \E j \in 1..MaxJobs : RunWriteFails(j)
    \/ \E j \in 1..MaxJobs : RunProgress90(j)
    \/ \E j \in 1..MaxJobs : RunCompleted(j)
    \/ \E j \in 1..MaxJobs : RunProgress100(j)
    \/ \E j \in 1..MaxJobs : RunExceptStatus(j)
    \/ \E j \in 1..MaxJobs : RunExceptError(j)
    \/ \E f \in OneFile : DeleteNotFound(f)
    \/ \E f \in OneFile : DeleteBegin(f)
    \/ DeleteOpenFails
    \/ DeleteVectors
    \/ DeleteVectorsFails
    \/ DeleteUnlink
    \/ DeleteJobs
    \/ RemoveFileList

\* The program under fair scheduling of the worker threads.
FairSpec ==
    /\ Init
    /\ [][NextOneFile]_vars
    /\ \A j \in 1..MaxJobs : WF_vars(RunStep(j))

(***************************************************************************)
(* Uploads and deletions of one file, one after the other: an operation    *)
(* begins when every earlier one has run to completion (the upload's       *)
(* background run included), and no external call fails.  The file's name  *)
(* and content are chosen once, so every upload brings the same file.      *)
(***************************************************************************)
Quiet ==
    /\ uploading = {}
    /\ remove.pc = "idle"
    /\ \A j \in DOMAIN run : run[j].pc = "done"

InitReupload ==
    /\ upload_dir = <<>>
    /\ uploading = {}
    /\ jobs = <<>>
    /\ jobinfo = <<>>
    /\ run = <<>>
    /\ store = {}
    /\ remove = Idle
    /\ resp = NoResponse
    /\ collection = FALSE
    /\ chat = NoChat
    /\ probe \in {[op |-> "reupload", input |-> <<f, c>>, output |-> <<>>] :
                      f \in FileNames, c \in Contents}

NextReupload ==
    \/ Quiet /\ UploadSave(probe.input[1], probe.input[2])
    \/ UploadRegister(probe.input[1])
    \/ \E j \in 1..MaxJobs : RunStart(j)
    \/ \E j \in 1..MaxJobs : RunProgress10(j)
    \/ \E j \in 1..MaxJobs : RunLoad(j)
    \/ \E j \in 1..MaxJobs : RunBuild(j)
    \/ \E j \in 1..MaxJobs : RunWrite(j)
    \/ \E j \in 1..MaxJobs : RunProgress90(j)
    \/ \E j \in 1..MaxJobs : RunCompleted(j)
    \/ \E j \in 1..MaxJobs : RunProgress100(j)
    \/ Quiet /\ DeleteNotFound(probe.input[1])
    \/ Quiet /\ DeleteBegin(probe.input[1])
    \/ DeleteVectors
    \/ DeleteUnlink
    \/ DeleteJobs
    \/ RemoveFileList

SpecReupload == InitReupload /\ [][NextReupload]_vars

(***************************************************************************)
(* _PDFPlumberReader.load_data on its own: the PDF is any sequence of up   *)
(* to MaxPdfPages pages, blank pages anywhere; the reader is applied once. *)
(***************************************************************************)
MaxPdfPages == 6

PdfFiles == UNION {[1..n -> 0..MaxPageChunks] : n \in 0..MaxPdfPages}

InitExtract ==
    /\ upload_dir = <<>>
    /\ uploading = {}
    /\ jobs = <<>>
    /\ jobinfo = <<>>
    /\ run = <<>>
    /\ store = {}
    /\ remove = Idle
    /\ resp = NoResponse
    /\ collection = FALSE
    /\ chat = NoChat
    /\ probe \in {[op |-> "load_data", input |-> pages, output |-> <<>>] :
                      pages \in PdfFiles}

\* lines 53-63: load_data(file) returns the documents of the file.
ExtractLoad ==
    /\ probe.op = "load_data"
    /\ probe' = [probe EXCEPT !.op = "loaded",
                              !.output = PDFPlumberReader_load_data(probe.input, 1)]
    /\ UNCHANGED <<upload_dir, uploading, jobs, jobinfo, run, store, remove,
                   resp, collection, chat>>

NextExtract == ExtractLoad

SpecExtract == InitExtract /\ [][NextExtract]_vars

(***************************************************************************)
(* Properties.                                                             *)
(***************************************************************************)
Jobs == 1..Len(jobinfo)

\* C1: the only status transitions of a job are processing -> completed and
\* processing -> error; a status that is completed or error never changes
\* again, whatever step (run_ingestion, upload, listing, polling, delete) is
\* taken.
C1_StatusTransitions ==
    [][\A j \in Jobs :
          jobinfo'[j].status # jobinfo[j].status =>
              /\ jobinfo[j].status = "processing"
              /\ jobinfo'[j].status \in {"completed", "error"}]_vars

\* C1 witness: a job that ended in error is polled after its run returned.
C1_Witness ==
    \E j \in Jobs :
        /\ run[j].pc = "done"
        /\ jobinfo[j].status = "error"
        /\ resp.op = "status"
        /\ resp.job.job_id = j

Checkpoints == <<0, 10, 30, 50, 90, 100>>

ProgressInRange ==
    \A j \in Jobs :
        /\ jobinfo[j].progress \in 0..100
        /\ \E k \in DOMAIN Checkpoints : jobinfo[j].progress = Checkpoints[k]

\* C2: every job's progress is an integer in 0..100, one of the checkpoints
\* 0, 10, 30, 50, 90, 100, in every reachable state; no step decreases the
\* progress of a job, the steps of a failing run included, and a step that
\* changes it moves it to the next checkpoint.
C2_ProgressMonotonic ==
    /\ ProgressInRange
    /\ [][/\ ProgressInRange'
          /\ \A j \in Jobs :
                /\ jobinfo'[j].progress >= jobinfo[j].progress
                /\ jobinfo'[j].progress # jobinfo[j].progress =>
                       \E k \in 1..(Len(Checkpoints) - 1) :
                           /\ jobinfo[j].progress = Checkpoints[k]
                           /\ jobinfo'[j].progress = Checkpoints[k + 1]]_vars

\* C2 witness: a run that failed in pipeline.run has returned; its job is in
\* error and keeps the progress 50 it had reached.
C2_Witness ==
    \E j \in Jobs :
        /\ run[j].pc = "done"
        /\ jobinfo[j].status = "error"
        /\ jobinfo[j].progress = 50

\* C3: once a step of run_ingestion has failed, control is in the except
\* clause or the call has returned, no later step of the run advances the
\* progress or writes a record, and when the call has returned the job's
\* status is error and its error is the message of that failure.
C3_FailureIsCaptured ==
    /\ [](\A j \in Jobs :
            run[j].exc # "" =>
                /\ run[j].pc \in {"except", "l213", "done"}
                /\ run[j].pc = "done" =>
                       /\ jobinfo[j].status = "error"
                       /\ jobinfo[j].error = run[j].exc)
    /\ [][\A j \in Jobs :
            run[j].exc # "" =>
                /\ jobinfo'[j].progress = jobinfo[j].progress
                /\ RecordsBy(j)' \subseteq RecordsBy(j)]_vars

\* C3 witness: a run whose vector-store write failed after a first record
\* was written has returned, with the job in error.
C3_Witness ==
    \E j \in Jobs :
        /\ run[j].pc = "done"
        /\ run[j].exc = "vector store write failed"
        /\ run[j].written = 1
        /\ jobinfo[j].status = "error"

\* C4 (as claimed): a status response never shows a partially updated job:
\* status completed comes with progress 100, status error with the message
\* of the failure.
C4_NoTornRead ==
    (resp.op = "status" /\ resp.job # NoJob) =>
        /\ resp.job.status = "completed" => resp.job.progress = 100
        /\ resp.job.status = "error" => resp.job.error # ""

\* The status of the most recently registered job that references a file.
RECURSIVE LastJobStatus(_, _)
LastJobStatus(filename, i) ==
    IF i = 0 THEN "ready"
    ELSE IF jobinfo[jobs[i]].filename = filename THEN jobinfo[jobs[i]].status
    ELSE LastJobStatus(filename, i - 1)

\* C5 (as claimed): a file listing reports, for every file, the status of
\* the most recently registered job that references it, and "ready" for a
\* file no job references.
C5_ListingShowsLatestJob ==
    resp.op = "files" =>
        \A f \in DOMAIN resp.files :
            resp.files[f] = LastJobStatus(f, Len(jobs))

\* The job entries of the dict that reference a file.
JobsOf(filename) ==
    {i \in 1..Len(jobs) : jobinfo[jobs[i]].filename = filename}

\* C6 (as claimed): when delete_file(f) has returned true and no ingestion
\* of f was in flight during the call, the store holds no record of f, f is
\* not on disk and no job of the dict references f.
C6_DeleteRemovesEverything ==
    (remove.pc = "list" /\ remove.ret = "true" /\ ~remove.racing) =>
        /\ RecordsOf(remove.filename) = {}
        /\ ~OnDisk(remove.filename)
        /\ JobsOf(remove.filename) = {}

\* C7: a delete_file(f) called for a name that is not a regular file of the
\* upload directory returns false in that same step and leaves the job
\* dict, the job objects, the vector store and the upload directory as
\* they were.
C7_DeleteOfMissingFile ==
    [][(remove.pc = "idle" /\ remove'.pc # "idle"
            /\ ~OnDisk(remove'.filename)) =>
          /\ remove'.pc = "list"
          /\ remove'.ret = "false"
          /\ UNCHANGED <<jobs, jobinfo, store, upload_dir>>]_vars

\* C7 witness: delete_file has returned false for a file that is not on
\* disk while a job of the dict and records of the store reference it.
C7_Witness ==
    /\ remove.pc = "list"
    /\ remove.ret = "false"
    /\ JobsOf(remove.filename) # {}
    /\ RecordsOf(remove.filename) # {}

\* C8 (as claimed): when a delete_file(f) that began while an ingestion of
\* f was in flight has returned true and no ingestion of f is in flight any
\* more, the store holds no record of f.  Stated for the calls whose
\* vector-store delete succeeded.
C8_NoResurrection ==
    (/\ remove.pc = "list"
     /\ remove.ret = "true"
     /\ remove.vec = "ok"
     /\ remove.racing
     /\ ~InFlight(remove.filename)) =>
        RecordsOf(remove.filename) = {}

\* C9: a step that removes a file from disk is taken only after the
\* vector-store delete of that call was attempted (it succeeded or failed),
\* and a step that removes job entries is taken only when the file of the
\* call is off the disk and the vector-store delete was attempted.
C9_DeleteOrder ==
    [][/\ (DOMAIN upload_dir' # DOMAIN upload_dir
             /\ DOMAIN upload_dir' \subseteq DOMAIN upload_dir) =>
              /\ remove.vec \in {"ok", "failed"}
              /\ DOMAIN upload_dir \ DOMAIN upload_dir' = {remove.filename}
       /\ Len(jobs') < Len(jobs) =>
              /\ remove.vec \in {"ok", "failed"}
              /\ ~OnDisk(remove.filename)]_vars

\* C9 witness: the vector-store delete of the call failed, the file is
\* already unlinked, and the job entries of the file are still to be removed.
C9_Witness ==
    /\ remove.pc = "jobs"
    /\ remove.vec = "failed"
    /\ ~OnDisk(remove.filename)
    /\ JobsOf(remove.filename) # {}

ExternalFailures ==
    {"extraction failed", "embedding model failed", "vector store write failed"}

\* C10 (as claimed): when the status of a job becomes completed in a run on
\* a file with a non-blank page, with no delete_file of that file under way
\* since the job was registered, the record count of the store exceeds its
\* value at the start of the run by at least the number of chunks.
C10_CountGrowsByChunks ==
    [][\A j \in Jobs :
          (/\ jobinfo[j].status # "completed"
           /\ jobinfo'[j].status = "completed"
           /\ ~run[j].deleted
           /\ Len(run[j].documents) >= 1) =>
              Cardinality(store') >=
                  run[j].count0 + Len(SentenceSplitter(run[j].documents))]_vars

\* C10 (amended): a run in which no external call failed and whose file saw
\* no delete_file since the job was registered returns with status
\* completed and progress 100; a step that makes a job completed is taken
\* only when every chunk of the run has been written; and, absent a
\* delete_file of the file, all those chunks are then records of the store,
\* so the store holds at least that many records of the file's name.
C10_CompletedMeansWritten ==
    /\ [](\A j \in Jobs :
            (/\ run[j].pc = "done"
             /\ ~run[j].deleted
             /\ run[j].exc \notin ExternalFailures) =>
                /\ jobinfo[j].status = "completed"
                /\ jobinfo[j].progress = 100)
    /\ [][\A j \in Jobs :
            (jobinfo[j].status # "completed"
                 /\ jobinfo'[j].status = "completed") =>
                /\ run[j].written = Len(SentenceSplitter(run[j].documents))
                /\ ~run[j].deleted =>
                       /\ Cardinality(RecordsBy(j)') = run[j].written
                       /\ Cardinality(RecordsOf(run[j].filename)')
                              >= run[j].written]_vars

\* C10 witness: a run on a file of two chunks has returned, completed at
\* progress 100, with both chunks in the store and no delete_file of the
\* file meanwhile.
C10_Witness ==
    \E j \in Jobs :
        /\ run[j].pc = "done"
        /\ ~run[j].deleted
        /\ jobinfo[j].status = "completed"
        /\ jobinfo[j].progress = 100
        /\ run[j].written = 2
        /\ Cardinality(RecordsBy(j)) = 2

\* A run has started once it has found its job (line 163) and not returned.
Started(j) == j \in DOMAIN run /\ run[j].pc \notin {"queued", "done"}

\* C11: every ingestion run that has started eventually sets its job to
\* completed or to error, provided the worker thread keeps being scheduled
\* and each external call returns or raises; no job of a started run stays
\* in processing forever.
C11_RunTerminates ==
    \A j \in 1..MaxJobs :
        Started(j) ~> (j \in Jobs /\ jobinfo[j].status \in {"completed", "error"})

\* C11 witness: a started run has returned and left its job completed while
\* the run of another job has started and its job is still processing.
C11_Witness ==
    \E j, k \in Jobs :
        /\ run[j].pc = "done"
        /\ jobinfo[j].status = "completed"
        /\ Started(k)
        /\ jobinfo[k].status = "processing"

\* C12: a query_documents call that finds zero records in the collection
\* returns at once with the fixed "no documents indexed" answer and an empty
\* citation list; it has asked the vector store for the count only: nothing
\* has been retrieved and the answering service has not been invoked.
C12_EmptyIndexAnswer ==
    [][(chat' # chat /\ chat.pc # "l45" /\ Cardinality(store) = 0) =>
          /\ chat'.pc = "returned"
          /\ chat'.answer = NoDocuments
          /\ chat'.sources = <<>>
          /\ chat'.ranked = <<>>
          /\ chat'.calls = {"count"}]_vars

\* C12 witness: the call has returned the fixed answer on an empty collection.
C12_Witness ==
    /\ Cardinality(store) = 0
    /\ chat.pc = "returned"
    /\ chat.answer = NoDocuments
    /\ "llm" \notin chat.calls

\* The rank of the first node of the list that has the key.
FirstRank(source_nodes, key) ==
    CHOOSE i \in 1..Len(source_nodes) :
        /\ SourceKey(source_nodes[i]) = key
        /\ \A k \in 1..(i - 1) : SourceKey(source_nodes[k]) # key

CitationKey(source) == <<source.file_name, source.page, source.sheet>>

\* C13: for every ranked list of retrieved nodes, the citation list holds
\* exactly one entry for every distinct key (file_name, page_label or empty,
\* sheet_name or empty) of the list, the entry is made from the highest-ranked
\* node with the key, the entries are in the order of the ranks of those
\* nodes, and every text preview has at most 200 characters.
C13_CitationsDeduplicated ==
    (chat.pc = "returned" /\ "retrieve" \in chat.calls) =>
        LET nodes == chat.ranked
            sources == chat.sources
            keys == {SourceKey(nodes[i]) : i \in 1..Len(nodes)}
        IN  /\ Len(sources) = Cardinality(keys)
            /\ {CitationKey(sources[m]) : m \in 1..Len(sources)} = keys
            /\ \A m \in 1..Len(sources) :
                   /\ sources[m].text_preview =
                          Preview(nodes[FirstRank(nodes, CitationKey(sources[m]))].text)
                   /\ sources[m].text_preview <= PreviewLen
                   /\ sources[m].text_preview <=
                          nodes[FirstRank(nodes, CitationKey(sources[m]))].text
            /\ \A m, n \in 1..Len(sources) :
                   m < n => FirstRank(nodes, CitationKey(sources[m]))
                                < FirstRank(nodes, CitationKey(sources[n]))

\* C13 witness: three nodes were retrieved, the first and the last with the
\* same key and different texts, the first of them longer than the preview.
C13_Witness ==
    /\ chat.pc = "returned"
    /\ Len(chat.ranked) = 3
    /\ SourceKey(chat.ranked[1]) = SourceKey(chat.ranked[3])
    /\ SourceKey(chat.ranked[1]) # SourceKey(chat.ranked[2])
    /\ chat.ranked[1].text > PreviewLen
    /\ chat.ranked[3].text < PreviewLen
    /\ Len(chat.sources) = 2

\* C14 as claimed: no step of query_documents changes the collections or
\* the records of the vector store, the job map or the upload directory.
C14_QueryIsReadOnly ==
    [][chat' # chat =>
          UNCHANGED <<collection, store, jobs, jobinfo, upload_dir>>]_vars

\* C14: no step of query_documents, on the empty index, on an answer, or on
\* a failure of the answering service, changes the records of the vector
\* store, the job map or the upload directory, and none removes the
\* collection; a call made while the collection does not exist creates it.
C14_QueryKeepsRecords ==
    [][chat' # chat =>
          /\ UNCHANGED <<store, jobs, jobinfo, upload_dir, uploading>>
          /\ collection']_vars

\* C14 witness: a call has failed in the answering service, on a collection
\* that holds records of files of the upload directory.
C14_Witness ==
    /\ chat.pc = "raised"
    /\ "llm" \in chat.calls
    /\ store # {}
    /\ collection
    /\ DOMAIN upload_dir # {}

\* The file names that an upload has brought into the program's state.
UploadedNames ==
    DOMAIN upload_dir \cup uploading \cup {jobinfo[j].filename : j \in Jobs}

\* C15: an upload whose extension, in lower case, is not one of .pdf, .xlsx,
\* .xls is rejected in the step that receives it, and that step changes
\* nothing: no file is written to the upload directory, no job is registered,
\* no ingestion is scheduled, the vector store is unchanged; hence no file,
\* job or run of such a name ever exists.
C15_RejectedUploadChangesNothing ==
    /\ [](\A f \in UploadedNames : Suffix(f) \in ALLOWED_EXTENSIONS)
    /\ [][resp'.op = "rejected" =>
             UNCHANGED <<upload_dir, uploading, jobs, jobinfo, run, store,
                         collection, remove>>]_vars

\* C15 witness: an upload has just been rejected while a file is indexed and
\* the run of another job is in progress.
C15_Witness ==
    /\ resp.op = "rejected"
    /\ store # {}
    /\ \E j \in Jobs : Started(j)

\* C16: when a file is uploaded, deleted and uploaded again with the same
\* name and content, each operation running to completion and no external
\* call failing, the vector store holds as many records with that file_name
\* after the second upload as it held after the first (the number of
\* chunks the first run wrote).
C16_ReuploadAfterDelete ==
    (Quiet /\ Len(run) >= 1) =>
        LET f == probe.input[1]
        IN  /\ (Len(run) = 1 /\ InDict(1)) =>
                   Cardinality(RecordsOf(f)) = run[1].written
            /\ (Len(run) = 2 /\ ~InDict(1) /\ InDict(2)) =>
                   /\ jobinfo[1].status = "completed"
                   /\ jobinfo[2].status = "completed"
                   /\ Cardinality(RecordsOf(f)) = run[1].written

\* C16 witness: the file, with two pages of text, has been uploaded, deleted
\* and uploaded again, and the second run has returned.
C16_Witness ==
    /\ Quiet
    /\ Len(run) = 2
    /\ ~InDict(1)
    /\ InDict(2)
    /\ run[1].written = 2
    /\ jobinfo[2].progress = 100
    /\ OnDisk(probe.input[1])

\* C17: when a run fails after k of its chunks were written, no step of the
\* failing run (the raise, the except clause) removes a record: unless the
\* file is deleted meanwhile, the k records are in the store when the run
\* returns; the job then has status error and a progress below 90.
C17_NoRollback ==
    /\ [](\A j \in Jobs :
            (run[j].pc = "done" /\ run[j].exc # "") =>
                /\ jobinfo[j].status = "error"
                /\ jobinfo[j].progress < 90)
    /\ [][\A j \in Jobs :
            (run'[j].exc # "" /\ run'[j].pc # run[j].pc) =>
                /\ store' = store
                /\ (run'[j].pc = "done" /\ ~run'[j].deleted) =>
                       Cardinality({r \in store' : r.id[1] = j}) = run'[j].written]_vars

\* C17 witness: a run has failed on its second chunk and returned; its first
\* record is in the store, the job is in error at progress 50.
C17_Witness ==
    \E j \in Jobs :
        /\ run[j].pc = "done"
        /\ run[j].exc = "vector store write failed"
        /\ run[j].written = 1
        /\ Cardinality(RecordsBy(j)) = 1
        /\ RecordsBy(j) \subseteq RecordsOf(run[j].filename)
        /\ jobinfo[j].status = "error"
        /\ jobinfo[j].progress = 50

\* C18: for every PDF, given as its sequence of pages, the extractor returns
\* exactly one segment for every page whose text is not blank, in page order,
\* and the page_label of a segment is the 1-based position of its page in the
\* document, blank pages counted: no segment has the label of a blank page.
C18_OneSegmentPerTextPage ==
    probe.op = "loaded" =>
        LET pages == probe.input
            documents == probe.output
        IN  /\ Len(documents) = Cardinality({i \in 1..Len(pages) : pages[i] # 0})
            /\ \A k \in 1..Len(documents) :
                   /\ documents[k].page_label \in 1..Len(pages)
                   /\ pages[documents[k].page_label] # 0
                   /\ documents[k].size = pages[documents[k].page_label]
                   /\ documents[k].sheet_name = 0
            /\ \A k, l \in 1..Len(documents) :
                   k < l => documents[k].page_label < documents[l].page_label

\* C18 witness: a PDF whose first and third pages are blank has been read;
\* its two segments carry the labels 2 and 4.
C18_Witness ==
    /\ probe.op = "loaded"
    /\ Len(probe.input) = 4
    /\ probe.input[1] = 0
    /\ probe.input[3] = 0
    /\ Len(probe.output) = 2
    /\ probe.output[1].page_label = 2
    /\ probe.output[2].page_label = 4

\* The job ids in the dict.
DictKeys == {jobs[i] : i \in 1..Len(jobs)}

\* C19: a run_ingestion that begins when its job is no longer in the dict
\* returns in that step and changes nothing (no record, no job entry, no
\* file); when it has returned, it has written no record and its job is
\* still absent.  No step but the registration of an upload adds an entry
\* to the dict, and the entry it adds has a new job id: after delete_file(f)
\* a job of f appears only when f is uploaded again.
C19_NoJobNoRun ==
    /\ [](\A j \in Jobs :
            (run[j].pc = "done" /\ jobinfo[j].progress = 0) =>
                /\ ~InDict(j)
                /\ RecordsBy(j) = {}
                /\ jobinfo[j].status = "processing")
    /\ [][/\ \A j \in DOMAIN run :
                (run[j].pc = "queued" /\ run'[j].pc # "queued" /\ ~InDict(j)) =>
                    /\ run'[j].pc = "done"
                    /\ UNCHANGED <<store, jobs, jobinfo, upload_dir, collection>>
          /\ \A i \in 1..Len(jobs') :
                jobs'[i] \notin DictKeys =>
                    /\ resp'.op = "upload"
                    /\ jobs'[i] = Len(jobinfo) + 1]_vars

\* C19 witness: the file of a job was deleted before its run began; the run
\* has returned, the file has been uploaded again and has a new job.
C19_Witness ==
    \E j, k \in Jobs :
        /\ run[j].pc = "done"
        /\ jobinfo[j].progress = 0
        /\ ~InDict(j)
        /\ InDict(k)
        /\ jobinfo[k].filename = jobinfo[j].filename
        /\ RecordsBy(k) # {}

\* C20: no step of run_ingestion removes a record (records leave the store
\* in delete_file only), and the registration of an upload keeps the jobs
\* that are in the dict.  When a file name was uploaded twice and not
\* deleted, and both runs have completed, both jobs are in the dict and the
\* records with that file_name are as many as the chunks of both uploads.
C20_IngestionOnlyAdds ==
    /\ [](\A j, k \in Jobs :
            (/\ j < k
             /\ jobinfo[j].filename = jobinfo[k].filename
             /\ jobinfo[j].status = "completed"
             /\ jobinfo[k].status = "completed"
             /\ run[k].pc = "done"
             /\ InDict(j)
             /\ InDict(k)
             /\ ~run[j].deleted
             /\ ~run[k].deleted
             /\ ~(remove.filename = jobinfo[j].filename /\ remove.vec = "ok")) =>
                Cardinality(RecordsOf(jobinfo[j].filename))
                    = run[j].written + run[k].written)
    /\ [][/\ ~(store \subseteq store') => (remove.pc = "vec" /\ remove'.vec = "ok")
          /\ resp'.op = "upload" =>
                /\ Len(jobs') = Len(jobs) + 1
                /\ \A i \in 1..Len(jobs) : jobs'[i] = jobs[i]]_vars

\* C20 witness: a file name was uploaded twice, with two chunks and then with
\* one; both runs have completed, both jobs are in the dict, three records
\* carry the file name.
C20_Witness ==
    \E j, k \in Jobs :
        /\ j < k
        /\ jobinfo[j].filename = jobinfo[k].filename
        /\ run[j].pc = "done"
        /\ run[k].pc = "done"
        /\ jobinfo[j].status = "completed"
        /\ jobinfo[k].status = "completed"
        /\ InDict(j)
        /\ InDict(k)
        /\ run[j].written = 2
        /\ run[k].written = 1
        /\ Cardinality(RecordsOf(jobinfo[j].filename)) = 3

====
